---- MODULE Spec2Model ----
(***************************************************************************)
(* Model of src/main.py: the two FastAPI endpoints generate-clip and       *)
(* process-clips, the background cleanup tasks they register, the          *)
(* arguments they hand to the external encoder, and the zoom expression of *)
(* the clip renderer.                                                      *)
(*                                                                         *)
(* Paths are records [prefix, id] standing for                             *)
(* temp_files/<prefix>_<id>.<ext>; a clip file named by a request is       *)
(* [prefix |-> "clip", id |-> k].  A uuid4() value is the negative of the  *)
(* request's index, so that it never equals a caller-supplied id.          *)
(***************************************************************************)
EXTENDS Integers, Sequences, FiniteSets, TLC

\* ---------------------------------------------------------------- bounds
NumRequests == 2
MaxClips == 2
MaxSubs == 2
MaxClock == 1
MaxFrames == 12
MaxZoomSpeed == 30

\* ------------------------------------------------------ program constants
\* zoompan's zoom variable starts at 1; the expression caps it at 1.5.
\* Both are kept in thousandths, as is zoom_speed.
ZoomStart == 1000
ZoomCap == 1500

VARIABLES request, pc, fs, tasks, voice_over_temp_path, concat_file,
          examined, filter_complex_parts, final_command, resp, cause, now,
          zoom_speed, on, zoom

vars == <<request, pc, fs, tasks, voice_over_temp_path, concat_file,
          examined, filter_complex_parts, final_command, resp, cause, now,
          zoom_speed, on, zoom>>

reqVars == <<request, pc, fs, tasks, voice_over_temp_path, concat_file,
             examined, filter_complex_parts, final_command, resp, cause, now>>

zoomVars == <<zoom_speed, on, zoom>>

Requests == 1..NumRequests

SeqsUpTo(S, n) == UNION {[1..k -> S] : k \in 0..n}

\* ------------------------------------------------------------------ paths
Path(prefix, id) == [prefix |-> prefix, id |-> id]
NoPath == Path("", 0)
ClipPath(k) == Path("clip", k)
\* Clip files a request may name; only the first is on disk.
ClipNames == {ClipPath(1), ClipPath(2), ClipPath(3)}
ExistingClips == {ClipPath(1)}

uuid4(r) == 0 - r

\* Remote resources, by how the remote end behaves.
Urls == {"ok", "http404", "unreachable"}
StatusCode(url) == 404

\* ------------------------------------------------------ request validation
Text == <<"i", "t", "'", "s">>
SubtitleEntries == [text : {Text}, start_time : {0, 1}, end_time : {0, 1, 2}]

NoRequest ==
    [kind |-> "none", id |-> 0, image_url |-> "", clips |-> <<>>,
     voice_over_audio_url |-> "", subtitles |-> <<>>, output_filename |-> NoPath]

GenerateRequests ==
    [kind : {"generate"}, id : {0, 1}, image_url : Urls, clips : {<<>>},
     voice_over_audio_url : {""}, subtitles : {<<>>}, output_filename : {NoPath}]

OutputNames == {NoPath, Path("my_reel", 0)}

\* process-clips requests of the concurrent specification: one clip, no
\* subtitles.
SmallProcessRequests ==
    [kind : {"process"}, id : {0}, image_url : {""},
     clips : {<<ClipPath(1)>>, <<ClipPath(2)>>},
     voice_over_audio_url : Urls \cup {""}, subtitles : {<<>>},
     output_filename : OutputNames]

\* process-clips requests of the single-request specification.
ProcessRequests ==
    [kind : {"process"}, id : {0}, image_url : {""},
     clips : SeqsUpTo(ClipNames, MaxClips),
     voice_over_audio_url : Urls \cup {""},
     subtitles : SeqsUpTo(SubtitleEntries, MaxSubs),
     output_filename : OutputNames]

\* SubtitleEntry's field constraints.  validate_times is installed by
\* __init_subclass__, which runs only for subclasses of SubtitleEntry; there
\* are none, so the hook is never installed and never runs.
SubtitleEntryValid(s) ==
    /\ Len(s.text) >= 1
    /\ s.start_time >= 0
    /\ s.end_time > 0

ProcessClipsRequestValid(req) ==
    /\ Len(req.clips) >= 1
    /\ \A i \in 1..Len(req.subtitles) : SubtitleEntryValid(req.subtitles[i])

\* -------------------------------------------------------------- responses
\* What the caller receives: the HTTP status and the detail's fixed wording
\* (arg: the path the wording names, if any).
Response(status, detail, arg) == [status |-> status, detail |-> detail, arg |-> arg]
NoResponse == Response(0, "", NoPath)
FileResponse(path) == Response(200, "file", path)
IsSuccess(rsp) == rsp.status \in 200..299

\* ------------------------------------------------------- background tasks
\* background_tasks.add_task(cleanup_file, path), with the time of the call.
Task(path) == [path |-> path, at |-> now]

\* Mutant: the tasks start as soon as they are registered.
BackgroundTasksStartedEarly(r) == pc[r] \in {"download", "encode", "voice", "concat", "responded"}

\* FastAPI attaches the injected BackgroundTasks to the response object the
\* endpoint returns and runs them once that response has been sent.
BackgroundTasksStarted(r) == pc[r] = "responded"

\* cleanup_file(filepath): remove the file if it exists.
cleanup_file(files, filepath) ==
    IF filepath \in files THEN files \ {filepath} ELSE files

\* One background task of request r runs, in the order of registration.
RunBackgroundTask(r) ==
    /\ BackgroundTasksStarted(r)
    /\ tasks[r] # <<>>
    /\ fs' = cleanup_file(fs, Head(tasks[r]).path)
    /\ tasks' = [tasks EXCEPT ![r] = Tail(tasks[r])]
    /\ pc' = [pc EXCEPT ![r] = IF Len(tasks[r]) = 1 THEN "done" ELSE "responded"]
    /\ UNCHANGED <<request, voice_over_temp_path, concat_file, examined,
                   filter_complex_parts, final_command, resp, cause, now>>
    /\ UNCHANGED zoomVars

\* The endpoint raises: the caller gets the exception's response.  The
\* response object the BackgroundTasks would have been attached to is never
\* returned, so the tasks registered so far are never run.
Raise(r, rsp, why) ==
    /\ pc' = [pc EXCEPT ![r] = "done"]
    /\ resp' = [resp EXCEPT ![r] = rsp]
    /\ cause' = [cause EXCEPT ![r] = why]
    /\ tasks' = [tasks EXCEPT ![r] = <<>>]

\* The endpoint returns a FileResponse.
Return(r, path) ==
    /\ pc' = [pc EXCEPT ![r] = "responded"]
    /\ resp' = [resp EXCEPT ![r] = FileResponse(path)]
    /\ UNCHANGED <<cause, tasks>>

\* run_ffmpeg_command: the exit codes the encoder may return.  It can only
\* succeed when its inputs are on disk.
ExitCodes(inputs) == IF inputs \subseteq fs THEN {0, 1} ELSE {1}

\* The HTTPException run_ffmpeg_command raises on a non-zero exit.
FfmpegFailed == Response(500, "FFmpeg command failed", NoPath)
InternalServerError == Response(500, "An internal server error occurred", NoPath)

\* ------------------------------------------------------------ generate-clip
RequestId(r) == IF request[r].id # 0 THEN request[r].id ELSE uuid4(r)
ImageTempPath(r) == Path("input_image", RequestId(r))
ClipOutputPath(r) == Path("tiktok_clip", RequestId(r))

\* except httpx.HTTPStatusError / except Exception of generate_clip_endpoint.
\* The HTTPException of run_ffmpeg_command is an Exception, so the second
\* clause catches it and answers with the generic error.
GenerateClipError(why, url) ==
    IF why = "fetch_status"
    THEN Response(StatusCode(url), "Failed to download image", NoPath)
    ELSE InternalServerError

generate_clip_begin(r) ==
    /\ pc[r] = "new"
    /\ request[r].kind = "generate"
    /\ tasks' = [tasks EXCEPT ![r] = <<Task(ImageTempPath(r)), Task(ClipOutputPath(r))>>]
    /\ pc' = [pc EXCEPT ![r] = "download"]
    /\ UNCHANGED <<request, fs, voice_over_temp_path, concat_file, examined,
                   filter_complex_parts, final_command, resp, cause, now>>
    /\ UNCHANGED zoomVars

generate_clip_download(r) ==
    /\ pc[r] = "download"
    /\ request[r].kind = "generate"
    /\ IF request[r].image_url = "ok"
       THEN /\ fs' = fs \cup {ImageTempPath(r)}
            /\ pc' = [pc EXCEPT ![r] = "encode"]
            /\ UNCHANGED <<resp, cause, tasks>>
       ELSE /\ LET why == IF request[r].image_url = "http404"
                          THEN "fetch_status" ELSE "fetch_transport"
               IN Raise(r, GenerateClipError(why, request[r].image_url), why)
            /\ UNCHANGED fs
    /\ UNCHANGED <<request, voice_over_temp_path, concat_file, examined,
                   filter_complex_parts, final_command, now>>
    /\ UNCHANGED zoomVars

generate_clip_encode(r) ==
    /\ pc[r] = "encode"
    /\ request[r].kind = "generate"
    /\ \E rc \in ExitCodes({ImageTempPath(r)}) :
         IF rc = 0
         THEN /\ fs' = fs \cup {ClipOutputPath(r)}
              /\ Return(r, ClipOutputPath(r))
         ELSE /\ Raise(r, GenerateClipError("encoder", ""), "encoder")
              /\ UNCHANGED fs
    /\ UNCHANGED <<request, voice_over_temp_path, concat_file, examined,
                   filter_complex_parts, final_command, now>>
    /\ UNCHANGED zoomVars

\* ------------------------------------------- process-clips: the command
\* A stream label of the filter graph: [0:v], [0:a], [1:a], [mixed_audio],
\* [v_temp<idx>].
Label(name, idx) == [name |-> name, idx |-> idx]
VTemp(i) == Label("v_temp", i)

\* One element of the argument list is a sequence of pieces, written by the
\* code as one string with a blank between the pieces.
Opt(s) == [t |-> "word", s |-> s, n |-> 0, g |-> <<>>]
PathArg(p) == [t |-> "path", s |-> p.prefix, n |-> p.id, g |-> <<>>]
LabelArg(l) == [t |-> "label", s |-> l.name, n |-> l.idx, g |-> <<>>]
\* ";".join(filter_complex_parts)
GraphArg(parts) == [t |-> "graph", s |-> ";", n |-> Len(parts), g |-> parts]
Args(words) == [i \in 1..Len(words) |-> <<Opt(words[i])>>]

\* sub.text.replace("'", "'\\''")
RECURSIVE EscapeText(_)
EscapeText(text) ==
    IF text = <<>> THEN <<>>
    ELSE (IF Head(text) = "'" THEN <<"'", "\\", "'", "'">> ELSE <<Head(text)>>)
         \o EscapeText(Tail(text))

Stage(filter, inputs, text, start_time, end_time, output) ==
    [filter |-> filter, inputs |-> inputs, text |-> text,
     start_time |-> start_time, end_time |-> end_time, output |-> output]

AmixStage(current_audio_input, input_index_counter) ==
    Stage("amix", <<current_audio_input, Label("a", input_index_counter)>>,
          <<>>, 0, 0, Label("mixed_audio", 0))

\* Mutant: every drawtext reads the concatenated video.
DrawtextInputFlat(i, current_video_input) == current_video_input

\* The input of the i-th drawtext (i from 0, as enumerate gives it).
DrawtextInput(i, current_video_input) ==
    IF i = 0 THEN current_video_input ELSE VTemp(i - 1)

DrawtextStage(i, sub, current_video_input) ==
    Stage("drawtext", <<DrawtextInput(i, current_video_input)>>,
          EscapeText(sub.text), sub.start_time, sub.end_time, VTemp(i))

DrawtextChain(subtitles, current_video_input) ==
    [k \in 1..Len(subtitles) |->
        DrawtextStage(k - 1, subtitles[k], current_video_input)]

\* current_video_input after the subtitle block.
MappedVideo(subtitles) ==
    IF subtitles # <<>> THEN VTemp(Len(subtitles) - 1) ELSE Label("v", 0)

MappedAudio(has_voice) ==
    IF has_voice THEN Label("mixed_audio", 0) ELSE Label("a", 0)

FilterComplexParts(subtitles, has_voice) ==
    (IF has_voice THEN <<AmixStage(Label("a", 0), 1)>> ELSE <<>>)
    \o DrawtextChain(subtitles, Label("v", 0))

\* map_options.append(f"-map {label}"): flag and label in one string.
MapOption(label) == <<Opt("-map"), LabelArg(label)>>

MapOptions(subtitles, has_voice) ==
    <<MapOption(MappedVideo(subtitles)), MapOption(MappedAudio(has_voice))>>

FfmpegInputs(concat_list_path, has_voice, voice_path) ==
    Args(<<"-f", "concat", "-safe", "0", "-i">>) \o <<<<PathArg(concat_list_path)>>>>
    \o (IF has_voice THEN <<<<Opt("-i")>>, <<PathArg(voice_path)>>>> ELSE <<>>)

OutputOptions(output_video_path) ==
    Args(<<"-c:v", "libx264", "-preset", "medium", "-crf", "23",
           "-pix_fmt", "yuv420p", "-c:a", "aac", "-b:a", "192k",
           "-movflags", "+faststart", "-y">>)
    \o <<<<PathArg(output_video_path)>>>>

FinalCommand(req, concat_list_path, has_voice, voice_path, output_video_path) ==
    LET parts == FilterComplexParts(req.subtitles, has_voice)
    IN FfmpegInputs(concat_list_path, has_voice, voice_path)
       \o (IF parts # <<>> THEN <<<<Opt("-filter_complex")>>, <<GraphArg(parts)>>>>
           ELSE <<>>)
       \o MapOptions(req.subtitles, has_voice)
       \o OutputOptions(output_video_path)

\* --------------------------------------- process-clips: the concat list
ConcatLine(filename) == [directive |-> "file", name |-> filename]

\* The loop over request.clips: the lines written and the clips examined
\* up to the first one that is not on disk (error: that clip, or NoPath).
RECURSIVE ConcatLoop(_, _, _, _)
ConcatLoop(clips, i, lines, files) ==
    IF i > Len(clips)
    THEN [lines |-> lines, examined |-> clips, error |-> NoPath]
    ELSE IF clips[i] \notin files
         THEN [lines |-> lines, examined |-> SubSeq(clips, 1, i), error |-> clips[i]]
         ELSE ConcatLoop(clips, i + 1, Append(lines, ConcatLine(clips[i])), files)

\* Mutant: the loop goes on after a missing clip and reports the last one.
RECURSIVE ScanAll(_, _, _, _, _)
ScanAll(clips, i, lines, files, error) ==
    IF i > Len(clips)
    THEN [lines |-> lines, examined |-> clips, error |-> error]
    ELSE IF clips[i] \notin files
         THEN ScanAll(clips, i + 1, lines, files, clips[i])
         ELSE ScanAll(clips, i + 1, Append(lines, ConcatLine(clips[i])), files, error)

WriteConcatListScanAll(clips, files) == ScanAll(clips, 1, <<>>, files, NoPath)

\* Mutant: a clip already in the list is not written again.
RECURSIVE Dedup(_, _, _, _)
Dedup(clips, i, lines, files) ==
    IF i > Len(clips)
    THEN [lines |-> lines, examined |-> clips, error |-> NoPath]
    ELSE IF clips[i] \notin files
         THEN [lines |-> lines, examined |-> SubSeq(clips, 1, i), error |-> clips[i]]
         ELSE IF \E j \in 1..Len(lines) : lines[j].name = clips[i]
              THEN Dedup(clips, i + 1, lines, files)
              ELSE Dedup(clips, i + 1, Append(lines, ConcatLine(clips[i])), files)

WriteConcatListDedup(clips, files) == Dedup(clips, 1, <<>>, files)

WriteConcatList(clips, files) == ConcatLoop(clips, 1, <<>>, files)

ClipNotFound(filename) == Response(400, "Clip file not found", filename)

\* ------------------------------------------------------------ process-clips
ConcatListPath(r) == Path("concat_list", uuid4(r))
VoiceOverPath(r) == Path("voiceover", uuid4(r))
FinalOutputPath(r) ==
    IF request[r].output_filename # NoPath
    THEN request[r].output_filename
    ELSE Path("final_reel", uuid4(r))

\* The except clauses of process_clips_endpoint: HTTPStatusError is answered
\* with the remote status, an HTTPException is re-raised as it is, anything
\* else becomes the generic error.
ProcessClipsError(why, url, filename) ==
    CASE why = "fetch_status" ->
           Response(StatusCode(url), "Failed to download audio", NoPath)
      [] why = "missing_clip" -> ClipNotFound(filename)
      [] why = "encoder" -> FfmpegFailed
      [] OTHER -> InternalServerError

\* Request validation, then the first lines of the handler.
process_clips_begin(r) ==
    /\ pc[r] = "new"
    /\ request[r].kind = "process"
    /\ IF ProcessClipsRequestValid(request[r])
       THEN /\ tasks' = [tasks EXCEPT ![r] =
                           <<Task(ConcatListPath(r)), Task(FinalOutputPath(r))>>]
            /\ pc' = [pc EXCEPT ![r] = "voice"]
            /\ UNCHANGED <<resp, cause>>
       ELSE Raise(r, Response(422, "Validation error", NoPath), "validation")
    /\ UNCHANGED <<request, fs, voice_over_temp_path, concat_file, examined,
                   filter_complex_parts, final_command, now>>
    /\ UNCHANGED zoomVars

\* 1. Download the voice-over, if the request names one.
process_clips_voice(r) ==
    /\ pc[r] = "voice"
    /\ LET url == request[r].voice_over_audio_url
       IN CASE url = "" ->
                 /\ pc' = [pc EXCEPT ![r] = "concat"]
                 /\ UNCHANGED <<fs, voice_over_temp_path, tasks, resp, cause>>
            [] url = "ok" ->
                 /\ voice_over_temp_path' =
                        [voice_over_temp_path EXCEPT ![r] = VoiceOverPath(r)]
                 /\ fs' = fs \cup {VoiceOverPath(r)}
                 /\ tasks' = [tasks EXCEPT ![r] = Append(@, Task(VoiceOverPath(r)))]
                 /\ pc' = [pc EXCEPT ![r] = "concat"]
                 /\ UNCHANGED <<resp, cause>>
            [] OTHER ->
                 /\ voice_over_temp_path' =
                        [voice_over_temp_path EXCEPT ![r] = VoiceOverPath(r)]
                 /\ LET why == IF url = "http404"
                               THEN "fetch_status" ELSE "fetch_transport"
                    IN Raise(r, ProcessClipsError(why, url, NoPath), why)
                 /\ UNCHANGED fs
    /\ UNCHANGED <<request, concat_file, examined, filter_complex_parts,
                   final_command, now>>
    /\ UNCHANGED zoomVars

\* 2. Write the concat list, then build the command.
process_clips_concat(r) ==
    /\ pc[r] = "concat"
    /\ LET w == WriteConcatList(request[r].clips, fs)
           has_voice == voice_over_temp_path[r] # NoPath
       IN /\ fs' = fs \cup {ConcatListPath(r)}
          /\ concat_file' = [concat_file EXCEPT ![r] = w.lines]
          /\ examined' = [examined EXCEPT ![r] = w.examined]
          /\ IF w.error # NoPath
             THEN /\ Raise(r, ProcessClipsError("missing_clip", "", w.error),
                           "missing_clip")
                  /\ UNCHANGED <<filter_complex_parts, final_command>>
             ELSE /\ filter_complex_parts' = [filter_complex_parts EXCEPT ![r] =
                         FilterComplexParts(request[r].subtitles, has_voice)]
                  /\ final_command' = [final_command EXCEPT ![r] =
                         FinalCommand(request[r], ConcatListPath(r), has_voice,
                                      voice_over_temp_path[r], FinalOutputPath(r))]
                  /\ pc' = [pc EXCEPT ![r] = "encode"]
                  /\ UNCHANGED <<resp, cause, tasks>>
    /\ UNCHANGED <<request, voice_over_temp_path, now>>
    /\ UNCHANGED zoomVars

\* 3. Run the encoder on the command and answer.
process_clips_encode(r) ==
    /\ pc[r] = "encode"
    /\ request[r].kind = "process"
    /\ \E rc \in ExitCodes({ConcatListPath(r)}
                           \cup ({voice_over_temp_path[r]} \ {NoPath})) :
         IF rc = 0
         THEN /\ fs' = fs \cup {FinalOutputPath(r)}
              /\ Return(r, FinalOutputPath(r))
         ELSE /\ Raise(r, ProcessClipsError("encoder", "", NoPath), "encoder")
              /\ UNCHANGED fs
    /\ UNCHANGED <<request, voice_over_temp_path, concat_file, examined,
                   filter_complex_parts, final_command, now>>
    /\ UNCHANGED zoomVars

\* ---------------------------------------------------------------- the clock
Tick ==
    /\ now < MaxClock
    /\ now' = now + 1
    /\ UNCHANGED <<request, pc, fs, tasks, voice_over_temp_path, concat_file,
                   examined, filter_complex_parts, final_command, resp, cause>>
    /\ UNCHANGED zoomVars

\* ------------------------------------------------------------------- zoompan
Min(a, b) == IF a <= b THEN a ELSE b

\* Mutant: the expression without its cap.
ZoomExprNoCap(z, speed, frame) == z + speed * frame

\* z='min(zoom+{zoom_speed}*on,1.5)'
ZoomExpr(z, speed, frame) == Min(z + speed * frame, ZoomCap)

RenderFrame ==
    /\ on < MaxFrames
    /\ zoom' = ZoomExpr(zoom, zoom_speed, on)
    /\ on' = on + 1
    /\ UNCHANGED zoom_speed
    /\ UNCHANGED reqVars

\* ------------------------------------------------------------ specifications
InitState(reqs) ==
    /\ request = reqs
    /\ pc = [r \in Requests |-> IF reqs[r].kind = "none" THEN "done" ELSE "new"]
    /\ fs = ExistingClips
    /\ tasks = [r \in Requests |-> <<>>]
    /\ voice_over_temp_path = [r \in Requests |-> NoPath]
    /\ concat_file = [r \in Requests |-> <<>>]
    /\ examined = [r \in Requests |-> <<>>]
    /\ filter_complex_parts = [r \in Requests |-> <<>>]
    /\ final_command = [r \in Requests |-> <<>>]
    /\ resp = [r \in Requests |-> NoResponse]
    /\ cause = [r \in Requests |-> "none"]
    /\ now = 0

NoRender ==
    /\ zoom_speed = 0
    /\ on = 0
    /\ zoom = ZoomStart

\* Concurrent requests to both endpoints.
Init ==
    /\ \E reqs \in [Requests -> GenerateRequests \cup SmallProcessRequests] :
         InitState(reqs)
    /\ NoRender

Next ==
    \/ \E r \in Requests : generate_clip_begin(r)
    \/ \E r \in Requests : generate_clip_download(r)
    \/ \E r \in Requests : generate_clip_encode(r)
    \/ \E r \in Requests : process_clips_begin(r)
    \/ \E r \in Requests : process_clips_voice(r)
    \/ \E r \in Requests : process_clips_concat(r)
    \/ \E r \in Requests : process_clips_encode(r)
    \/ \E r \in Requests : RunBackgroundTask(r)
    \/ Tick

Spec == Init /\ [][Next]_vars

\* Concurrent requests that can reach their cleanup (the downloads succeed
\* and the clips exist; the encoder may still fail), with the clock.
CleanupRequests ==
    {req \in GenerateRequests \cup SmallProcessRequests :
        /\ req.image_url \in {"", "ok"}
        /\ req.voice_over_audio_url \in {"", "ok"}
        /\ \A i \in 1..Len(req.clips) : req.clips[i] \in ExistingClips}

\* No handler reads a request's index, so the requests are numbered in the
\* order of this rank (one value per request of CleanupRequests).
Rank(req) ==
    (IF req.kind = "generate" THEN 0 ELSE 4)
    + (IF req.id # 0 THEN 1 ELSE 0)
    + (IF req.voice_over_audio_url # "" THEN 1 ELSE 0)
    + (IF req.output_filename # NoPath THEN 2 ELSE 0)

CleanupInit ==
    /\ \E reqs \in [Requests -> CleanupRequests] :
         /\ \A r \in Requests \ {NumRequests} : Rank(reqs[r]) <= Rank(reqs[r + 1])
         /\ InitState(reqs)
    /\ NoRender

CleanupSpec == CleanupInit /\ [][Next]_vars

\* One process-clips request, over the full range of clip and subtitle lists.
PipeInit ==
    /\ \E req \in ProcessRequests :
         InitState([r \in Requests |-> IF r = 1 THEN req ELSE NoRequest])
    /\ NoRender

PipeNext ==
    \/ \E r \in Requests : process_clips_begin(r)
    \/ \E r \in Requests : process_clips_voice(r)
    \/ \E r \in Requests : process_clips_concat(r)
    \/ \E r \in Requests : process_clips_encode(r)
    \/ \E r \in Requests : RunBackgroundTask(r)

PipeSpec == PipeInit /\ [][PipeNext]_vars

\* The frames of one rendered clip.
ZoomInit ==
    /\ InitState([r \in Requests |-> NoRequest])
    /\ zoom_speed \in 0..MaxZoomSpeed
    /\ on = 0
    /\ zoom = ZoomStart

ZoomNext == RenderFrame

ZoomSpec == ZoomInit /\ [][ZoomNext]_vars

\* ==================================================================== claims
IsProcess(r) == request[r].kind = "process"
IsGenerate(r) == request[r].kind = "generate"
InFlight(r) == pc[r] \notin {"new", "done"}
Succeeded(r) == IsSuccess(resp[r])

\* The scratch paths a request writes, reads or schedules for deletion.
ScratchPaths(r) ==
    CASE IsGenerate(r) -> {ImageTempPath(r), ClipOutputPath(r)}
      [] IsProcess(r) ->
           {ConcatListPath(r), FinalOutputPath(r)}
           \cup (IF request[r].voice_over_audio_url # "" THEN {VoiceOverPath(r)} ELSE {})
      [] OTHER -> {}

\* The files a finished request has written.
Created(r) ==
    CASE IsGenerate(r) ->
           (IF request[r].image_url = "ok" THEN {ImageTempPath(r)} ELSE {})
           \cup (IF Succeeded(r) THEN {ClipOutputPath(r)} ELSE {})
      [] IsProcess(r) ->
           (IF examined[r] # <<>> THEN {ConcatListPath(r)} ELSE {})
           \cup (IF voice_over_temp_path[r] # NoPath
                    /\ request[r].voice_over_audio_url = "ok"
                 THEN {VoiceOverPath(r)} ELSE {})
           \cup (IF Succeeded(r) THEN {FinalOutputPath(r)} ELSE {})
      [] OTHER -> {}

\* C1: once a request is over and no cleanup task of it is pending, every
\* file it created is gone from storage (unless another request that is
\* still running uses the same path), whether it succeeded or failed.
C1_ArtifactsRemoved ==
    \A r \in Requests :
        pc[r] = "done" =>
            \A p \in Created(r) \cap fs :
                \E q \in Requests \ {r} : InFlight(q) /\ p \in ScratchPaths(q)

\* The cleanup task at the head of r's list removes its file in this step.
Deletes(r) ==
    /\ pc[r] = "responded"
    /\ tasks[r] # <<>>
    /\ tasks'[r] = Tail(tasks[r])
    /\ Head(tasks[r]).path \in fs
    /\ Head(tasks[r]).path \notin fs'

C3_DisjointScratch ==
    \A r1, r2 \in Requests :
        (r1 # r2 /\ InFlight(r1) /\ InFlight(r2))
            => ScratchPaths(r1) \cap ScratchPaths(r2) = {}

\* The position of the first clip of the list that is not on disk.
SomeClipMissing(r) == \E i \in 1..Len(request[r].clips) : request[r].clips[i] \notin fs
FirstAbsent(r) ==
    CHOOSE i \in 1..Len(request[r].clips) :
        /\ request[r].clips[i] \notin fs
        /\ \A j \in 1..(i - 1) : request[r].clips[j] \in fs

MissingClipOutcome(r) ==
    /\ cause[r] = "missing_clip"
    /\ resp[r] = ClipNotFound(request[r].clips[FirstAbsent(r)])
    /\ examined[r] = SubSeq(request[r].clips, 1, FirstAbsent(r))

EncoderNeverInvoked(r) ==
    /\ pc[r] \notin {"encode", "responded"}
    /\ final_command[r] = <<>>
    /\ cause[r] # "encoder"
    /\ ~Succeeded(r)

\* C4 (as stated): a valid process-clips request naming a clip that is not on
\* disk
\* ends with the missing-clip error naming the first absent clip, examines
\* no clip after it and never invokes the encoder.
C4_MissingClipAlways ==
    \A r \in Requests :
        (IsProcess(r) /\ ProcessClipsRequestValid(request[r]) /\ SomeClipMissing(r))
            => /\ EncoderNeverInvoked(r)
               /\ pc[r] = "done" => MissingClipOutcome(r)

\* C4 (amended): such a request never invokes the encoder and never
\* succeeds; unless the voice-over download, which runs first, has failed,
\* it ends with the missing-clip error naming the first absent clip and
\* examines no clip after it.  When the download fails no clip is examined.
C4_MissingClipUnlessFetchFails ==
    \A r \in Requests :
        (IsProcess(r) /\ ProcessClipsRequestValid(request[r]) /\ SomeClipMissing(r))
            => /\ EncoderNeverInvoked(r)
               /\ pc[r] = "done" =>
                    IF cause[r] \in {"fetch_status", "fetch_transport"}
                    THEN examined[r] = <<>>
                    ELSE MissingClipOutcome(r)

\* Two different absent clips: the error names the first, the second was
\* never examined.
C4_Witness ==
    \E r \in Requests :
        /\ IsProcess(r)
        /\ Len(request[r].clips) = 2
        /\ request[r].clips[1] \notin fs
        /\ request[r].clips[2] \notin fs
        /\ request[r].clips[1] # request[r].clips[2]
        /\ cause[r] = "missing_clip"
        /\ examined[r] = <<request[r].clips[1]>>

IsDrawtext(stage) == stage.filter = "drawtext"

\* C5: every entry that reaches the subtitle overlay stage (every drawtext
\* stage built for a request) has end_time > start_time; a request holding
\* any other entry is rejected before the pipeline starts.
C5_EndAfterStart ==
    \A r \in Requests :
        \A k \in 1..Len(filter_complex_parts[r]) :
            IsDrawtext(filter_complex_parts[r][k]) =>
                filter_complex_parts[r][k].end_time > filter_complex_parts[r][k].start_time

StageFailures == {"fetch_status", "fetch_transport", "missing_clip", "encoder"}

\* C6: a stage failure is never answered with a success, and two stage
\* failures of different kinds are never answered with the same failure.
C6_DistinctFailures ==
    /\ \A r \in Requests : cause[r] \in StageFailures => ~Succeeded(r)
    /\ \A r1, r2 \in Requests :
          (cause[r1] \in StageFailures /\ cause[r2] \in StageFailures
             /\ cause[r1] # cause[r2])
              => resp[r1] # resp[r2]

\* The stream labels the command maps to the output file, in order: the
\* piece after "-map", in the same element or in the next one.
RECURSIVE MapTargets(_, _)
MapTargets(cmd, i) ==
    IF i > Len(cmd) THEN <<>>
    ELSE IF cmd[i][1] = Opt("-map")
         THEN (IF Len(cmd[i]) >= 2 THEN <<cmd[i][2]>>
               ELSE IF i < Len(cmd) THEN <<cmd[i + 1][1]>> ELSE <<>>)
              \o MapTargets(cmd, i + 1)
         ELSE MapTargets(cmd, i + 1)

CommandBuilt(r) == final_command[r] # <<>>

\* C7: for n subtitles the command holds n drawtext stages in list order,
\* the first reading the concatenated video [0:v], each later one reading
\* the output of the one before, and maps the last stage's output (or [0:v]
\* when n = 0) as the video stream.
C7_OverlayChain ==
    \A r \in Requests :
        CommandBuilt(r) =>
            LET subs == request[r].subtitles
                n == Len(subs)
                stages == SelectSeq(filter_complex_parts[r], IsDrawtext)
                mapped == MapTargets(final_command[r], 1)
            IN /\ Len(stages) = n
               /\ \A i \in 1..n :
                     /\ stages[i].start_time = subs[i].start_time
                     /\ stages[i].end_time = subs[i].end_time
                     /\ stages[i].inputs =
                           <<IF i = 1 THEN Label("v", 0) ELSE stages[i - 1].output>>
                     /\ \A j \in 1..n : j # i => stages[j].output # stages[i].output
                     /\ stages[i].output # Label("v", 0)
               /\ Len(mapped) = 2
               /\ mapped[1] = LabelArg(IF n = 0 THEN Label("v", 0) ELSE stages[n].output)
               /\ (n > 0 => \E k \in 1..Len(final_command[r]) :
                               final_command[r][k] = <<GraphArg(filter_complex_parts[r])>>)

\* Two subtitles, the later one first in the list: kept in list order.
C7_Witness ==
    \E r \in Requests :
        /\ CommandBuilt(r)
        /\ Len(request[r].subtitles) >= 2
        /\ request[r].subtitles[1].start_time > request[r].subtitles[2].start_time

C9_ZoomMonotoneCapped ==
    /\ [](zoom <= ZoomCap)
    /\ [][zoom' >= zoom]_vars

\* The cap is reached by a zooming clip with frames still to render.
C9_Witness ==
    /\ zoom = ZoomCap
    /\ zoom_speed > 0
    /\ on > 0
    /\ on < MaxFrames

\* C10: every element of the encoder's argument list is one flag or one
\* value, and each "-map" is followed by a separate element holding the
\* stream label.
C10_SeparateElements ==
    \A r \in Requests :
        \A i \in 1..Len(final_command[r]) :
            /\ Len(final_command[r][i]) = 1
            /\ final_command[r][i][1] = Opt("-map") =>
                  /\ i < Len(final_command[r])
                  /\ final_command[r][i + 1][1].t = "label"

====
